---- MODULE Spec2Model ----
(***************************************************************************)
(* Model of the RTSP request layer of let-light/neon:                      *)
(*   - package rtsp: UnmarshalRequest, HeaderLines.String, Request.ToString*)
(*     Request.CSeq, Request.GetLine, SetParameterRequest.Parameters       *)
(*   - package tcp:  Context (SetConn, Write, RemoteAddr, LocalAddr,       *)
(*     Network, OnTcpClose, OnTcpRread)                                    *)
(* A byte is a one-character string, a []byte / string is a sequence of    *)
(* bytes, a Go map is a function whose domain is the set of its keys.      *)
(***************************************************************************)
EXTENDS Integers, Sequences, FiniteSets, TLC

VARIABLES wire, pos, buf, res, call,
          conn, ctxRes, written,
          content, params

vars == <<wire, pos, buf, res, call,
          conn, ctxRes, written, content, params>>

decVars == <<wire, pos, buf, res, call>>
ctxVars == <<conn, ctxRes, written>>
parVars == <<content, params>>

(***************************************************************************)
(* Bounds of the model                                                     *)
(***************************************************************************)
MaxHeaders == 2
MaxChunk == 2
MaxSpare == 1
MaxWrites == 2
MaxParamLines == 3

(***************************************************************************)
(* Bytes and byte strings                                                  *)
(***************************************************************************)
CR == "\r"
LF == "\n"
SP == " "
COLON == ":"
CRLF == <<CR, LF>>
CRLFCRLF == <<CR, LF, CR, LF>>

UpperToLower ==
  [c \in {"A","B","C","D","E","F","G","H","I","J","K","L","M",
          "N","O","P","Q","R","S","T","U","V","W","X","Y","Z"} |->
     CASE c = "A" -> "a" [] c = "B" -> "b" [] c = "C" -> "c" [] c = "D" -> "d"
       [] c = "E" -> "e" [] c = "F" -> "f" [] c = "G" -> "g" [] c = "H" -> "h"
       [] c = "I" -> "i" [] c = "J" -> "j" [] c = "K" -> "k" [] c = "L" -> "l"
       [] c = "M" -> "m" [] c = "N" -> "n" [] c = "O" -> "o" [] c = "P" -> "p"
       [] c = "Q" -> "q" [] c = "R" -> "r" [] c = "S" -> "s" [] c = "T" -> "t"
       [] c = "U" -> "u" [] c = "V" -> "v" [] c = "W" -> "w" [] c = "X" -> "x"
       [] c = "Y" -> "y" [] c = "Z" -> "z"]

DigitVal ==
  [c \in {"0","1","2","3","4","5","6","7","8","9"} |->
     CASE c = "0" -> 0 [] c = "1" -> 1 [] c = "2" -> 2 [] c = "3" -> 3
       [] c = "4" -> 4 [] c = "5" -> 5 [] c = "6" -> 6 [] c = "7" -> 7
       [] c = "8" -> 8 [] c = "9" -> 9]

\* s[lo:hi] of Go (0-based, hi exclusive), for 0 <= lo <= hi <= len(s)
Slice(s, lo, hi) == SubSeq(s, lo + 1, hi)

\* strings.ToLower on ASCII text
ToLower(s) == [i \in 1..Len(s) |->
                 IF s[i] \in DOMAIN UpperToLower THEN UpperToLower[s[i]] ELSE s[i]]

\* bytes.Index / strings.Index: offset of the first occurrence of sep, or -1
RECURSIVE IndexFrom(_, _, _)
IndexFrom(s, sep, i) ==
  IF i + Len(sep) > Len(s) THEN -1
  ELSE IF Slice(s, i, i + Len(sep)) = sep THEN i
  ELSE IndexFrom(s, sep, i + 1)

Index(s, sep) == IndexFrom(s, sep, 0)

\* bytes.Split / strings.Split with a non-empty separator: all the pieces
RECURSIVE Split(_, _)
Split(s, sep) ==
  LET i == Index(s, sep) IN
    IF i = -1 THEN <<s>>
    ELSE <<Slice(s, 0, i)>> \o Split(Slice(s, i + Len(sep), Len(s)), sep)

\* the digits of strconv.Atoi, most significant first
RECURSIVE DigitsVal(_, _)
DigitsVal(s, acc) ==
  IF s = <<>> THEN acc
  ELSE DigitsVal(Tail(s), acc * 10 + DigitVal[Head(s)])

\* strconv.Atoi: optional sign, then one or more decimal digits
Atoi(s) ==
  LET signed == s # <<>> /\ Head(s) \in {"+", "-"}
      digits == IF signed THEN Tail(s) ELSE s
      good   == digits # <<>> /\ \A i \in 1..Len(digits) : digits[i] \in DOMAIN DigitVal
      mag    == IF good THEN DigitsVal(digits, 0) ELSE 0
  IN [ok  |-> good,
      val |-> IF good /\ signed /\ Head(s) = "-" THEN 0 - mag ELSE mag]

(***************************************************************************)
(* package rtsp: the decoder                                               *)
(***************************************************************************)
KeyContentLength == <<"c","o","n","t","e","n","t","-","l","e","n","g","t","h">>
KeyCSeq == <<"c","s","e","q">>

\* make(HeaderLines)
EmptyLines == <<>>

\* the zero Request, standing for the nil *Request of an error return
NoRequest == [Method |-> <<>>, Url |-> <<>>, Version |-> <<>>,
              Lines |-> EmptyLines, Content |-> <<>>]

Result(kind, hasReq, req, n) == [kind |-> kind, hasReq |-> hasReq, req |-> req, n |-> n]

NoResult == Result("none", FALSE, NoRequest, 0)

\* a decoder that takes the first \r\n for the end of the headers
HeaderEndOffsetFirstCRLF(b) == Index(b, CRLF)

\* headerEndOffset := bytes.Index(buf, []byte("\r\n\r\n"))
HeaderEndOffset(b) == Index(b, CRLFCRLF)

\* a map store that keeps the value of the first occurrence
StoreLineKeepFirst(m, key, value) == m @@ (key :> value)

\* req.Lines[key] = value
StoreLine(m, key, value) == (key :> value) @@ m

\* for _, line := range lines { ... }: the map and the content length after
\* the lines from index i on, or the strconv error that ends the loop early
RECURSIVE ParseLines(_, _, _, _)
ParseLines(lines, i, m, cl) ==
  IF i > Len(lines) THEN [err |-> FALSE, m |-> m, cl |-> cl]
  ELSE
    LET line == lines[i]
        idx  == Index(line, <<COLON>>)
    IN IF Len(line) = 0 \/ idx = -1 THEN ParseLines(lines, i + 1, m, cl)
       ELSE
         LET key   == ToLower(Slice(line, 0, idx))
             value == Slice(line, idx + 1, Len(line))
             m2    == StoreLine(m, key, value)
         IN IF key = KeyContentLength
            THEN LET a == Atoi(value) IN
                   IF ~a.ok THEN [err |-> TRUE, m |-> m2, cl |-> cl]
                   ELSE ParseLines(lines, i + 1, m2, a.val)
            ELSE ParseLines(lines, i + 1, m2, cl)

\* UnmarshalRequest(buf): b is buf[0:len(buf)], stale the bytes of the backing
\* array between len(buf) and cap(buf)
UnmarshalRequest(b, stale) ==
  LET headerEndOffset == HeaderEndOffset(b) IN
  IF headerEndOffset = -1 THEN Result("incomplete", FALSE, NoRequest, -1)
  ELSE
    LET endOffset == headerEndOffset + 4
        lines == Split(Slice(b, 0, headerEndOffset), CRLF)
    IN
    IF Len(lines) < 2 THEN Result("invalid", FALSE, NoRequest, endOffset)
    ELSE
      LET methodLineParts == Split(lines[1], <<SP>>) IN
      IF Len(methodLineParts) # 3 THEN Result("invalid", FALSE, NoRequest, endOffset)
      ELSE
        \* the loop ranges over all of lines, the request line included
        LET p == ParseLines(lines, 1, EmptyLines, 0) IN
        IF p.err THEN Result("atoi", FALSE, NoRequest, headerEndOffset + 4)
        ELSE
          LET hi == headerEndOffset + 4 + p.cl IN
          \* buf[lo:hi] panics unless lo <= hi <= cap(buf)
          IF p.cl < 0 \/ hi > Len(b) + Len(stale)
          THEN Result("panic", FALSE, NoRequest, 0)
          ELSE Result("ok", TRUE,
                      [Method  |-> ToLower(methodLineParts[1]),
                       Url     |-> ToLower(methodLineParts[2]),
                       Version |-> ToLower(methodLineParts[3]),
                       Lines   |-> p.m,
                       Content |-> Slice(b \o stale, headerEndOffset + 4, hi)],
                      endOffset + p.cl)

\* req.Lines[key]: the zero value "" for a missing key
GetLine(req, key) == IF key \in DOMAIN req.Lines THEN req.Lines[key] ELSE <<>>

\* Request.CSeq
CSeq(req) ==
  LET cseqLine == GetLine(req, KeyCSeq) IN
    IF cseqLine = <<>> THEN -1
    ELSE LET a == Atoi(cseqLine) IN IF ~a.ok THEN -1 ELSE a.val

\* HeaderLines.String, with the map iterated in the order `order`
RECURSIVE LinesString(_, _)
LinesString(m, order) ==
  IF order = <<>> THEN <<>>
  ELSE Head(order) \o <<COLON, SP>> \o m[Head(order)] \o CRLF
         \o LinesString(m, Tail(order))

\* Request.ToString
RequestToString(req, order) ==
  req.Method \o <<SP>> \o req.Url \o <<SP>> \o req.Version \o CRLF
    \o LinesString(req.Lines, order) \o CRLF \o req.Content

\* the orders in which `range` may visit the keys of a map
Orders(m) ==
  LET n == Cardinality(DOMAIN m) IN
    {o \in [1..n -> DOMAIN m] : \A i, j \in 1..n : i # j => o[i] # o[j]}

\* SetParameterRequest.Parameters: the loop over the lines of the body
RECURSIVE ParamLines(_, _, _)
ParamLines(lines, i, m) ==
  IF i > Len(lines) THEN m
  ELSE LET parts == Split(lines[i], <<COLON>>) IN
         IF Len(parts) # 2 THEN ParamLines(lines, i + 1, m)
         ELSE ParamLines(lines, i + 1, (parts[1] :> parts[2]) @@ m)

\* SetParameterRequest.Parameters: a nil map for an empty body
Parameters(body) ==
  IF Len(body) = 0 THEN [isNil |-> TRUE, m |-> <<>>]
  ELSE [isNil |-> FALSE, m |-> ParamLines(Split(body, CRLF), 1, <<>>)]

(***************************************************************************)
(* Inputs of the decoder: one message on the wire, followed by the first   *)
(* bytes of whatever the peer sends next                                   *)
(***************************************************************************)
\* request lines as the tokens the peer joins with single spaces
RequestLineSet ==
  { << <<"S">>, <<"u">>, <<"V">> >>,
    << <<"S">>, <<"r", COLON, "/", "h">>, <<"V">> >>,
    << <<"k", COLON, "9">>, <<"u">>, <<"V">> >>,
    << <<"S">>, <<"u">> >> }

Header(name, colon, value) == [name |-> name, colon |-> colon, value |-> value]

ContentLengthName == <<"C","o","n","t","e","n","t","-","L","e","n","g","t","h">>

\* header lines: name, ":" and value, or a line without a colon
HeaderLineSet ==
  { Header(<<"C","S","e","q">>, TRUE, <<SP, "3">>),
    Header(KeyCSeq, TRUE, <<"3">>),
    Header(ContentLengthName, TRUE, <<"1">>),
    Header(KeyContentLength, TRUE, <<"0">>),
    Header(KeyContentLength, TRUE, <<"x">>),
    Header(<<"K">>, TRUE, <<"1">>),
    Header(<<"k">>, TRUE, <<"2">>),
    Header(<<"b","a","d">>, FALSE, <<>>) }

HeaderLists == UNION {[1..n -> HeaderLineSet] : n \in 0..MaxHeaders}

\* the bytes that follow the blank line: the body and the start of the next message
AfterHeaders == <<"a", "X">>

RECURSIVE JoinTokens(_)
JoinTokens(ts) ==
  IF ts = <<>> THEN <<>>
  ELSE IF Len(ts) = 1 THEN ts[1]
  ELSE Head(ts) \o <<SP>> \o JoinTokens(Tail(ts))

HeaderBytes(h) == IF h.colon THEN h.name \o <<COLON>> \o h.value ELSE h.name

RECURSIVE JoinLines(_)
JoinLines(hs) ==
  IF hs = <<>> THEN <<>> ELSE HeaderBytes(Head(hs)) \o CRLF \o JoinLines(Tail(hs))

\* the bytes the peer sends for the request line w.rl and the header lines w.hs
WireBytes(w) == JoinTokens(w.rl) \o CRLF \o JoinLines(w.hs) \o CRLF \o AfterHeaders

\* what the backing array may hold between len(buf) and cap(buf)
StaleSet == {[i \in 1..n |-> "z"] : n \in 0..MaxSpare}

NoCall == [op |-> "none", key |-> <<>>, int |-> 0, str |-> <<>>, res |-> NoResult]

\* the state of a Context, of a SET_PARAMETER body and of a decoder that a
\* specification leaves untouched
CtxIdle ==
  /\ conn = [nil |-> TRUE, remote |-> [nil |-> TRUE, network |-> "", str |-> ""],
             local |-> [nil |-> TRUE, network |-> "", str |-> ""]]
  /\ ctxRes = [op |-> "none", panic |-> FALSE, out |-> "", err |-> "nil"]
  /\ written = <<>>

ParIdle ==
  /\ content = <<>>
  /\ params = [called |-> FALSE, isNil |-> TRUE, m |-> <<>>]

DecIdle ==
  /\ wire = [rl |-> <<>>, hs |-> <<>>, bytes |-> <<>>]
  /\ pos = 0
  /\ buf = <<>>
  /\ res = NoResult
  /\ call = NoCall

(***************************************************************************)
(* The decoder driven by a connection: every arriving chunk is appended to *)
(* the accumulated buffer and UnmarshalRequest is called on it; the caller *)
(* keeps the buffer and retries while the result is the incomplete packet  *)
(***************************************************************************)
InitDecode ==
  /\ wire \in {[rl |-> rl, hs |-> hs, bytes |-> WireBytes([rl |-> rl, hs |-> hs])] :
                 rl \in RequestLineSet, hs \in HeaderLists}
  /\ pos = 0
  /\ buf = <<>>
  /\ res = NoResult
  /\ call = NoCall
  /\ CtxIdle
  /\ ParIdle

Recv(k, stale) ==
  /\ res.kind \in {"none", "incomplete"}
  /\ pos + k <= Len(wire.bytes)
  /\ pos' = pos + k
  /\ buf' = buf \o SubSeq(wire.bytes, pos + 1, pos + k)
  /\ res' = UnmarshalRequest(buf', stale)
  /\ UNCHANGED <<wire, call, ctxVars, parVars>>

CallCSeq ==
  /\ res.hasReq
  /\ call' = [NoCall EXCEPT !.op = "CSeq", !.int = CSeq(res.req)]
  /\ UNCHANGED <<wire, pos, buf, res, ctxVars, parVars>>

CallGetLine(key) ==
  /\ res.hasReq
  /\ call' = [NoCall EXCEPT !.op = "GetLine", !.key = key, !.str = GetLine(res.req, key)]
  /\ UNCHANGED <<wire, pos, buf, res, ctxVars, parVars>>

\* r.ToString() decoded again, in a buffer of its own
CallToString(order) ==
  /\ res.hasReq
  /\ call' = [NoCall EXCEPT !.op = "ToString",
                            !.str = RequestToString(res.req, order),
                            !.res = UnmarshalRequest(RequestToString(res.req, order), <<>>)]
  /\ UNCHANGED <<wire, pos, buf, res, ctxVars, parVars>>

LookupKeys == {KeyCSeq, KeyContentLength, <<"k">>, <<"s", SP, "r">>}

NextDecode ==
  \/ \E k \in 0..MaxChunk, stale \in StaleSet : Recv(k, stale)
  \/ CallCSeq
  \/ \E key \in LookupKeys : CallGetLine(key)
  \/ \E order \in Orders(res.req.Lines) : CallToString(order)

Spec == InitDecode /\ [][NextDecode]_vars

(***************************************************************************)
(* package tcp: Context                                                    *)
(***************************************************************************)
\* a nil net.Addr
NilAddr == [nil |-> TRUE, network |-> "", str |-> ""]

Addrs == { [nil |-> FALSE, network |-> "tcp", str |-> "10.0.0.1:554"],
           [nil |-> FALSE, network |-> "tcp", str |-> "10.0.0.2:9000"] }

\* the nil gnet.Conn
NilConn == [nil |-> TRUE, remote |-> NilAddr, local |-> NilAddr]

\* the connections the transport can hand over: either endpoint address may
\* be reported as nil
Conns == [nil : {FALSE}, remote : Addrs \cup {NilAddr}, local : Addrs \cup {NilAddr}]

Payloads == {"d1", "d2"}

CtxResult(op, panic, out, err) == [op |-> op, panic |-> panic, out |-> out, err |-> err]

\* NewContext
InitContext ==
  /\ conn = NilConn
  /\ ctxRes = CtxResult("none", FALSE, "", "nil")
  /\ written = <<>>
  /\ DecIdle
  /\ ParIdle

\* Context.SetConn(nil) and Context.SetConn(c) for a gnet.Conn c
SetConn(c) ==
  /\ conn' = c
  /\ ctxRes' = CtxResult("SetConn", FALSE, "", "nil")
  /\ UNCHANGED <<written, decVars, parVars>>

\* Context.SetConn(c) for a non-nil c that is no gnet.Conn: c.(gnet.Conn) panics
SetConnNotConn ==
  /\ ctxRes' = CtxResult("SetConn", TRUE, "", "nil")
  /\ UNCHANGED <<conn, written, decVars, parVars>>

\* Context.Write: a method call on the nil interface panics, otherwise
\* AsyncWrite queues the data or reports an error
Write(data, fails) ==
  /\ (~conn.nil /\ ~fails) => Len(written) < MaxWrites
  /\ IF conn.nil
     THEN /\ ctxRes' = CtxResult("Write", TRUE, "", "nil")
          /\ UNCHANGED written
     ELSE IF fails
     THEN /\ ctxRes' = CtxResult("Write", FALSE, "", "error")
          /\ UNCHANGED written
     ELSE /\ ctxRes' = CtxResult("Write", FALSE, "", "nil")
          /\ written' = Append(written, data)
  /\ UNCHANGED <<conn, decVars, parVars>>

\* Context.RemoteAddr
RemoteAddr ==
  /\ ctxRes' = IF conn.nil \/ conn.remote.nil
               THEN CtxResult("RemoteAddr", FALSE, "", "nil")
               ELSE CtxResult("RemoteAddr", FALSE, conn.remote.str, "nil")
  /\ UNCHANGED <<conn, written, decVars, parVars>>

\* Context.LocalAddr: the guard tests RemoteAddr(), the result is
\* LocalAddr().String(), a method call on a nil net.Addr panics
LocalAddr ==
  /\ ctxRes' = IF conn.nil \/ conn.remote.nil
               THEN CtxResult("LocalAddr", FALSE, "", "nil")
               ELSE IF conn.local.nil
               THEN CtxResult("LocalAddr", TRUE, "", "nil")
               ELSE CtxResult("LocalAddr", FALSE, conn.local.str, "nil")
  /\ UNCHANGED <<conn, written, decVars, parVars>>

\* Context.Network: RemoteAddr().Network() without a test of RemoteAddr()
Network ==
  /\ ctxRes' = IF conn.nil
               THEN CtxResult("Network", FALSE, "", "nil")
               ELSE IF conn.remote.nil
               THEN CtxResult("Network", TRUE, "", "nil")
               ELSE CtxResult("Network", FALSE, conn.remote.network, "nil")
  /\ UNCHANGED <<conn, written, decVars, parVars>>

\* Context.OnTcpClose
OnTcpClose ==
  /\ ctxRes' = CtxResult("OnTcpClose", FALSE, "", "nil")
  /\ UNCHANGED <<conn, written, decVars, parVars>>

\* Context.OnTcpRread
OnTcpRread ==
  /\ ctxRes' = CtxResult("OnTcpRread", FALSE, "0", "nil")
  /\ UNCHANGED <<conn, written, decVars, parVars>>

NextContext ==
  \/ \E c \in Conns \cup {NilConn} : SetConn(c)
  \/ SetConnNotConn
  \/ \E data \in Payloads, fails \in BOOLEAN : Write(data, fails)
  \/ RemoteAddr
  \/ LocalAddr
  \/ Network
  \/ OnTcpClose
  \/ OnTcpRread

SpecContext == InitContext /\ [][NextContext]_vars

(***************************************************************************)
(* SetParameterRequest.Parameters on the body of a SET_PARAMETER request   *)
(***************************************************************************)
ParamLineSet ==
  { <<"a", COLON, "1">>,
    <<"b", COLON, "2">>,
    <<"a", COLON, "9">>,
    <<"b", "a", "d">>,
    <<"k", COLON, "v", COLON, "w">>,
    <<>> }

RECURSIVE JoinCRLF(_)
JoinCRLF(ls) ==
  IF ls = <<>> THEN <<>>
  ELSE IF Len(ls) = 1 THEN ls[1]
  ELSE Head(ls) \o CRLF \o JoinCRLF(Tail(ls))

ParamLineLists == UNION {[1..n -> ParamLineSet] : n \in 0..MaxParamLines}

InitParams ==
  /\ content \in {JoinCRLF(ls) : ls \in ParamLineLists}
  /\ params = [called |-> FALSE, isNil |-> TRUE, m |-> <<>>]
  /\ DecIdle
  /\ CtxIdle

CallParameters ==
  /\ params' = [called |-> TRUE, isNil |-> Parameters(content).isNil,
                m |-> Parameters(content).m]
  /\ UNCHANGED <<content, decVars, ctxVars>>

NextParams == CallParameters

SpecParams == InitParams /\ [][NextParams]_vars

(***************************************************************************)
(* What was sent, read off the wire without the decoder                    *)
(***************************************************************************)
\* the buffer holds the four bytes \r\n\r\n somewhere
HasTerminator(b) ==
  \E i \in 1..(Len(b) - 3) :
    b[i] = CR /\ b[i + 1] = LF /\ b[i + 2] = CR /\ b[i + 3] = LF

\* offset of the blank line that ends the headers of the wire
WireHeaderEnd(w) == Len(JoinTokens(w.rl) \o CRLF \o JoinLines(w.hs)) - 2

\* the lines before the blank line, the request line first
WireLines(w) == <<JoinTokens(w.rl)>> \o [i \in 1..Len(w.hs) |-> HeaderBytes(w.hs[i])]

HasColon(line) == \E i \in 1..Len(line) : line[i] = COLON

FirstColon(line) == CHOOSE i \in 1..Len(line) :
                      line[i] = COLON /\ \A j \in 1..(i - 1) : line[j] # COLON

NameOf(line) == ToLower(SubSeq(line, 1, FirstColon(line) - 1))

ValueOf(line) == SubSeq(line, FirstColon(line) + 1, Len(line))

\* the positions among ls of the lines named key
Occurrences(ls, key) == {i \in 1..Len(ls) : HasColon(ls[i]) /\ NameOf(ls[i]) = key}

LastOccurrence(ls, key) ==
  CHOOSE i \in Occurrences(ls, key) : \A j \in Occurrences(ls, key) : j <= i

NamesOf(ls) == {NameOf(ls[i]) : i \in {j \in 1..Len(ls) : HasColon(ls[j])}}

\* the buffer decoded last held the whole header region of a request line
\* of three tokens followed by at least one more line
HeadersDecoded ==
  /\ res.kind \notin {"none", "incomplete"}
  /\ Len(wire.rl) = 3
  /\ Len(wire.hs) >= 1

\* C2: a buffer without the terminator \r\n\r\n, the empty buffer included,
\* decodes to (nil, -1, incomplete packet), and the buffer the caller keeps
\* for the retry is all that was delivered so far
C2_IncompleteWithoutTerminator ==
  /\ (res.kind # "none" /\ ~HasTerminator(buf)) =>
        res = Result("incomplete", FALSE, NoRequest, -1)
  /\ res.kind = "incomplete" => buf = SubSeq(wire.bytes, 1, pos)

\* C2 happens: a retry on a buffer that ends inside the terminator
C2_Witness ==
  /\ res.kind = "incomplete"
  /\ Len(buf) >= 3
  /\ SubSeq(buf, Len(buf) - 2, Len(buf)) = <<CR, LF, CR>>

\* the content length the last content-length line of ls declares, 0 without one
LastContentLength(ls) ==
  IF Occurrences(ls, KeyContentLength) = {} THEN 0
  ELSE Atoi(ValueOf(ls[LastOccurrence(ls, KeyContentLength)])).val

SomeContentLengthUnparsable(ls) ==
  \E i \in Occurrences(ls, KeyContentLength) : ~Atoi(ValueOf(ls[i])).ok

LastContentLengthUnparsable(ls) ==
  /\ Occurrences(ls, KeyContentLength) # {}
  /\ ~Atoi(ValueOf(ls[LastOccurrence(ls, KeyContentLength)])).ok

\* the stored value of every name is that of its last occurrence, GetLine
\* returns it, and the last content-length decides the body length and
\* bytesConsumed of a returned Request
LastOccurrenceWins ==
  LET ls == WireLines(wire) IN
  /\ res.hasReq =>
       /\ DOMAIN res.req.Lines = NamesOf(ls)
       /\ \A key \in NamesOf(ls) :
            res.req.Lines[key] = ValueOf(ls[LastOccurrence(ls, key)])
       /\ Len(res.req.Content) = LastContentLength(ls)
       /\ res.n = WireHeaderEnd(wire) + 4 + LastContentLength(ls)
  /\ (res.hasReq /\ call.op = "GetLine") =>
       call.str = IF call.key \in NamesOf(ls)
                  THEN ValueOf(ls[LastOccurrence(ls, call.key)]) ELSE <<>>

\* C4 (as amended): the value stored for a name that occurs more than once is
\* that of its last occurrence, and the last content-length decides the body
\* length and bytesConsumed of a returned Request; the content-length parse
\* error is reported exactly when some occurrence, not only the last, fails
\* to parse
C4_LastWinsAnyUnparsableFails ==
  /\ LastOccurrenceWins
  /\ HeadersDecoded =>
       (res.kind = "atoi" <=> SomeContentLengthUnparsable(WireLines(wire)))

\* C4 (as claimed): the last occurrence alone decides whether the
\* content-length parse error is reported
C4_LastAloneDecidesError ==
  /\ LastOccurrenceWins
  /\ HeadersDecoded =>
       (res.kind = "atoi" <=> LastContentLengthUnparsable(WireLines(wire)))

\* C4 happens: a Request decoded from a message with two content-length
\* lines of different values
C4_Witness ==
  /\ res.hasReq
  /\ \E i, j \in Occurrences(WireLines(wire), KeyContentLength) :
       i < j /\ ValueOf(WireLines(wire)[i]) # ValueOf(WireLines(wire)[j])

\* a well-formed message: a request line of method, url and version with a
\* method free of colons, one or more name:value lines, and a content-length
\* that, when sent, is a number of bytes
WellFormed(w) ==
  /\ Len(w.rl) = 3
  /\ ~HasColon(w.rl[1])
  /\ Len(w.hs) >= 1
  /\ \A i \in 1..Len(w.hs) : w.hs[i].colon
  /\ \A i \in 1..Len(w.hs) :
       ToLower(w.hs[i].name) = KeyContentLength =>
         \A j \in 1..Len(w.hs[i].value) : w.hs[i].value[j] \in DOMAIN DigitVal

\* the header lines alone, without the request line
SentLines(w) == [i \in 1..Len(w.hs) |-> HeaderBytes(w.hs[i])]

\* the length of the one message the wire starts with
MessageLength(w) == WireHeaderEnd(w) + 4 + LastContentLength(SentLines(w))

\* C1: a buffer that begins with a well-formed message decodes without error
\* to the lower-cased method, url and version, exactly the sent headers
\* (lower-cased names, raw values), the body of content-length bytes, and
\* bytesConsumed the length of that message
C1_WellFormedDecodes ==
  (WellFormed(wire) /\ res.kind # "none" /\ pos >= MessageLength(wire)) =>
    /\ res.kind = "ok"
    /\ res.req.Method = ToLower(wire.rl[1])
    /\ res.req.Url = ToLower(wire.rl[2])
    /\ res.req.Version = ToLower(wire.rl[3])
    /\ DOMAIN res.req.Lines = NamesOf(SentLines(wire))
    /\ \A key \in NamesOf(SentLines(wire)) :
         res.req.Lines[key] = ValueOf(SentLines(wire)[LastOccurrence(SentLines(wire), key)])
    /\ res.req.Content = SubSeq(AfterHeaders, 1, LastContentLength(SentLines(wire)))
    /\ res.n = MessageLength(wire)

\* C3: a buffer with the terminator but fewer than content-length bytes
\* after it decodes to the incomplete result, so a Request is produced only
\* once all the bytes of its message have arrived
C3_ShortBodyIsIncomplete ==
  /\ (WellFormed(wire) /\ res.kind # "none"
        /\ pos >= WireHeaderEnd(wire) + 4 /\ pos < MessageLength(wire)) =>
       res = Result("incomplete", FALSE, NoRequest, -1)
  /\ (WellFormed(wire) /\ res.hasReq) => pos >= MessageLength(wire)

\* C5: CSeq() is -1 without a cseq header and the number sent otherwise; a
\* request received with the header line `CSeq: 3` has CSeq() = 3
C5_CSeqOfWireHeader ==
  (call.op = "CSeq" /\ WellFormed(wire)) =>
    LET ls == SentLines(wire) IN
      IF Occurrences(ls, KeyCSeq) = {} THEN call.int = -1
      ELSE call.int = 3

\* C6: the Request decoded from r.ToString() has the method, url, version,
\* headers and body of r, whatever the order of the serialized headers
C6_RoundTrip ==
  call.op = "ToString" =>
    /\ call.res.kind = "ok"
    /\ call.res.req.Method = res.req.Method
    /\ call.res.req.Url = res.req.Url
    /\ call.res.req.Version = res.req.Version
    /\ DOMAIN call.res.req.Lines = DOMAIN res.req.Lines
    /\ \A key \in DOMAIN res.req.Lines : call.res.req.Lines[key] = res.req.Lines[key]
    /\ call.res.req.Content = res.req.Content

\* C10: every key of Lines is the lower-cased name of a header line that
\* follows the request line; the request line gives no entry
C10_OnlyHeaderLinesGiveEntries ==
  res.hasReq =>
    \A key \in DOMAIN res.req.Lines :
      \E i \in 1..Len(wire.hs) : wire.hs[i].colon /\ ToLower(wire.hs[i].name) = key

\* C7: a Write while no handle is attached returns an error, does not fault
\* on the nil handle, and leaves the Context detached
C7_DetachedWriteReturnsError ==
  (ctxRes.op = "Write" /\ conn.nil) => (~ctxRes.panic /\ ctxRes.err = "error")

\* C8: RemoteAddr, LocalAddr and Network return "" and do not fail when the
\* handle is absent or the transport reports no address for the endpoint
\* the call asks about
C8_AddressQueriesDegrade ==
  /\ (ctxRes.op \in {"RemoteAddr", "Network"} /\ (conn.nil \/ conn.remote.nil)) =>
       (~ctxRes.panic /\ ctxRes.out = "")
  /\ (ctxRes.op = "LocalAddr" /\ (conn.nil \/ conn.local.nil)) =>
       (~ctxRes.panic /\ ctxRes.out = "")

\* the entries of the lines of a body, each line split on its first colon
FirstColonEntries(body) ==
  LET ls == Split(body, CRLF) IN
    [key \in {SubSeq(ls[i], 1, FirstColon(ls[i]) - 1) :
                i \in {j \in 1..Len(ls) : HasColon(ls[j])}} |->
       LET last == CHOOSE i \in 1..Len(ls) :
                     /\ HasColon(ls[i])
                     /\ SubSeq(ls[i], 1, FirstColon(ls[i]) - 1) = key
                     /\ \A j \in (i + 1)..Len(ls) :
                          ~(HasColon(ls[j]) /\ SubSeq(ls[j], 1, FirstColon(ls[j]) - 1) = key)
       IN ValueOf(ls[last])]

\* C9: Parameters() has one entry for every line of the body with a colon,
\* from the text before the first colon to everything after it, and none
\* for a line without a colon
C9_ParametersSplitOnFirstColon ==
  (params.called /\ content # <<>>) =>
    /\ DOMAIN params.m = DOMAIN FirstColonEntries(content)
    /\ \A key \in DOMAIN params.m : params.m[key] = FirstColonEntries(content)[key]

====
